---- MODULE Spec2Model ----
(***************************************************************************)
(* A model of src/src/neuron.c: a feed-forward network (create_network,    *)
(* set_random_weights_biases, feedforward), its binary persistence         *)
(* (save_network, load_network) and the training loop (network_SGD,        *)
(* shuffle_data, network_backprop, calculate_costs).                       *)
(*                                                                         *)
(* Numbers.  A double is an integer counting sixteenths (16 is 1.0).       *)
(* Weights, biases and inputs are multiples of a quarter, so every product *)
(* weight * activation is an exact number of sixteenths; sigma rounds its  *)
(* result to the nearest quarter.  On disk a double is the 8 bytes of its  *)
(* IEEE-754 representation and an int is 4 bytes, least significant first. *)
(*                                                                         *)
(* Memory.  Storage returned by malloc holds indeterminate values: every   *)
(* allocation draws its contents from GarbageDoubles / GarbageInts.        *)
(* Allocations are taken to succeed.                                       *)
(*                                                                         *)
(* Two drivers share the state: the "api" driver creates a network from    *)
(* any schedule and then runs feedforward or save/load on it; the "train"  *)
(* driver creates a network and runs network_SGD on a corpus.              *)
(***************************************************************************)
EXTENDS Integers, Sequences, FiniteSets

\* ------------------------------------------------------------------ bounds
MaxLayers == 3      \* largest n_layers a caller passes
MaxSize == 2        \* largest layer size a caller passes
MaxCols == 3        \* largest number of training columns N
MaxEpochs == 2      \* largest epochs argument
MaxBatch == 3       \* largest mini_batch_size argument

\* Values a double takes at the callers' hands, in sixteenths.
GarbageDoubles == {-16, 8}
GarbageInts == {0, 2}
Seeds == {1, 2}
InputVals == {0, 16}

VARIABLES
  pc,           \* position of the driver program
  sched,        \* the caller's arguments to create_network: [n, s]
  net,          \* the struct network the driver holds
  input,        \* the input vector last given to feedforward
  output,       \* the output vector feedforward filled
  file,         \* the file named by filename: [exists, bytes]
  loaded,       \* the struct network load_network returned
  short_reads,  \* number of fread items load_network did not get
  data,         \* training_data, one example per column
  labels,       \* training_labels, one label per column
  epochs,       \* network_SGD's epochs argument
  mini_batch_size,
  sgd_i,        \* network_SGD's epoch counter i
  sgd_j,        \* network_SGD's column counter j
  shuf_i,       \* shuffle_data's counter i
  batches,      \* the sections network_SGD extracted in the current epoch
  bp            \* the storage account of the last network_backprop call

apivars == <<input, output, file, loaded, short_reads>>
sgdvars == <<data, labels, epochs, mini_batch_size, sgd_i, sgd_j, shuf_i,
             batches, bp>>
vars == <<pc, sched, net, apivars, sgdvars>>

\* ------------------------------------------------------- generic helpers
RECURSIVE FlatMap(_, _, _)
\* F(lo) \o F(lo+1) \o ... \o F(hi): what a for loop appends, in loop order.
FlatMap(F(_), lo, hi) ==
  IF lo > hi THEN <<>> ELSE F(lo) \o FlatMap(F, lo + 1, hi)

RECURSIVE Sum(_, _, _)
Sum(F(_), lo, hi) ==
  IF lo > hi THEN 0 ELSE F(lo) + Sum(F, lo + 1, hi)

\* ------------------------------------------------------ matrix collaborator
\* matrix_double: nrows, ncols and data[row][col], indexed from 0.
alloc_matrix_double(nrows, ncols, fill) ==
  [nrows |-> nrows, ncols |-> ncols,
   data |-> [r \in 0..(nrows - 1) |-> [c \in 0..(ncols - 1) |-> fill]]]

copy_matrix_double(m) == m

matrix_product_matrix_double(a, b) ==
  [nrows |-> a.nrows, ncols |-> b.ncols,
   data |-> [r \in 0..(a.nrows - 1) |-> [c \in 0..(b.ncols - 1) |->
      LET term(k) == (a.data[r][k] * b.data[k][c]) \div 16
      IN  Sum(term, 0, a.ncols - 1)]]]

\* the matrix with column col replaced by the array arr
set_col_matrix_double(m, arr, col) ==
  [m EXCEPT !.data = [r \in 0..(m.nrows - 1) |->
      [m.data[r] EXCEPT ![col] = arr[r]]]]

\* the array that column col of m is copied into
copy_col_matrix_double(m, col) == [r \in 0..(m.nrows - 1) |-> m.data[r][col]]

\* the matrix with columns i and j interchanged
interchange_cols_matrix_double(m, i, j) ==
  [m EXCEPT !.data = [r \in 0..(m.nrows - 1) |->
      [c \in 0..(m.ncols - 1) |->
         IF c = i THEN m.data[r][j]
         ELSE IF c = j THEN m.data[r][i]
         ELSE m.data[r][c]]]]

\* the block of m from section.a (inclusive) to section.b (exclusive)
extract_section_matrix_double(m, section) ==
  LET nrows == section.b.row - section.a.row
      ncols == section.b.col - section.a.col
  IN  [nrows |-> nrows, ncols |-> IF ncols < 0 THEN 0 ELSE ncols,
       data |-> [r \in 0..(nrows - 1) |-> [c \in 0..(ncols - 1) |->
                   m.data[section.a.row + r][section.a.col + c]]]]

\* uniformInt(limit): the values rand_lim may return
rand_lim(limit) == 0..limit

copy_array_int(n, src) == [l \in 0..(n - 1) |-> src[l]]

\* ------------------------------------------------------------------ network
ValidSchedule(n, s) == n >= 2 /\ \A l \in 0..(n - 1) : s[l] > 0

NullNet == [n_layers |-> 0, net_structure |-> <<>>,
            biases |-> <<>>, weights |-> <<>>]

create_bias(net_structure, i, fill) ==
  alloc_matrix_double(net_structure[i + 1], 1, fill)

create_weight_swapped(net_structure, i, fill) ==
  alloc_matrix_double(net_structure[i], net_structure[i + 1], fill)

create_weight(net_structure, i, fill) ==
  alloc_matrix_double(net_structure[i + 1], net_structure[i], fill)

create_network(n_layers, net_structure, fill) ==
  [n_layers |-> n_layers,
   net_structure |-> copy_array_int(n_layers, net_structure),
   biases |-> [i \in 0..(n_layers - 2) |-> create_bias(net_structure, i, fill)],
   weights |-> [i \in 0..(n_layers - 2) |-> create_weight(net_structure, i, fill)]]

\* Loop order of set_random_weights_biases: per layer, per neuron, the bias
\* and then the neuron's weights.
random_order(n_layers, net_structure) ==
  LET neuron(i, j) ==
        <<[k |-> "b", l |-> i, i |-> j, j |-> 0]>>
        \o FlatMap(LAMBDA k : <<[k |-> "w", l |-> i, i |-> j, j |-> k]>>,
                   0, net_structure[i] - 1)
      layer(i) == FlatMap(LAMBDA j : neuron(i, j), 0, net_structure[i + 1] - 1)
  IN  FlatMap(layer, 0, n_layers - 2)

\* the network with the entry a target names set to v
Store(n, t, v) ==
  IF t.k = "b"
    THEN [n EXCEPT !.biases[t.l].data[t.i][0] = v]
    ELSE [n EXCEPT !.weights[t.l].data[t.i][t.j] = v]

Entry(n, t) ==
  IF t.k = "b" THEN n.biases[t.l].data[t.i][0]
               ELSE n.weights[t.l].data[t.i][t.j]

\* Sampler collaborator: gauss0 advances the seed and returns a deviate.
gauss0_next(seed) == (seed * 5 + 3) % 17
gauss0_value(seed) == <<-16, -8, 0, 8, 16>>[(gauss0_next(seed) % 5) + 1]

RECURSIVE fill_random(_, _, _, _)
fill_random(n, targets, k, seed) ==
  IF k > Len(targets) THEN n
  ELSE fill_random(Store(n, targets[k], gauss0_value(seed)), targets, k + 1,
                   gauss0_next(seed))

set_random_weights_biases(n, seed) ==
  fill_random(n, random_order(n.n_layers, n.net_structure), 1, seed)

\* -------------------------------------------------------------- feedforward
\* 1 / (1 + exp(-x)), x in sixteenths, rounded to the nearest quarter.
sigma(x) ==
  IF x <= -32 THEN 0
  ELSE IF x <= -9 THEN 4
  ELSE IF x <= 8 THEN 8
  ELSE IF x <= 31 THEN 12
  ELSE 16

vectorized_sigma(m) ==
  [m EXCEPT !.data = [r \in 0..(m.nrows - 1) |->
      [c \in 0..(m.ncols - 1) |-> sigma(m.data[r][c])]]]

\* the matrix m with the column vector b added to every column
add_bias(m, b) ==
  [m EXCEPT !.data = [r \in 0..(m.nrows - 1) |->
      [c \in 0..(m.ncols - 1) |-> m.data[r][c] + b.data[r][0]]]]

ff_layer_with_bias(n, l, activation) ==
  vectorized_sigma(add_bias(
    matrix_product_matrix_double(n.weights[l - 1], activation),
    n.biases[l - 1]))

\* one pass of feedforward's loop body: the activation of layer l
ff_layer(n, l, activation) ==
  vectorized_sigma(copy_matrix_double(
    matrix_product_matrix_double(n.weights[l - 1], activation)))

RECURSIVE ff_loop(_, _, _)
ff_loop(n, l, activation) ==
  IF l < n.n_layers THEN ff_loop(n, l + 1, ff_layer(n, l, activation))
  ELSE activation

\* the array feedforward leaves in output
feedforward(n, in) ==
  LET activation ==
        set_col_matrix_double(
          alloc_matrix_double(n.net_structure[0], 1, 0), in, 0)
  IN  copy_col_matrix_double(ff_loop(n, 1, activation), 0)

\* -------------------------------------------------------------- persistence
SizeofInt == 4
SizeofDouble == 8

\* object representation of an int, least significant byte first
IntBytes(v) == [k \in 1..4 |-> (v \div (256 ^ (k - 1))) % 256]

IntOfBytes(b) ==
  b[1] + 256 * b[2] + 65536 * b[3]
  + 16777216 * (IF b[4] >= 128 THEN b[4] - 256 ELSE b[4])

\* The two most significant bytes of the IEEE-754 double q / 4, 0 <= q <= 8.
DoubleTop(q) ==
  <<<<0, 0>>, <<208, 63>>, <<224, 63>>, <<232, 63>>, <<240, 63>>,
    <<244, 63>>, <<248, 63>>, <<252, 63>>, <<0, 64>>>>[q + 1]

\* object representation of the double v / 16, least significant byte first
DoubleBytes(v) ==
  LET q == IF v < 0 THEN (0 - v) \div 4 ELSE v \div 4
      top == DoubleTop(q)
  IN  <<0, 0, 0, 0, 0, 0, top[1], IF v < 0 THEN top[2] + 128 ELSE top[2]>>

\* the double whose object representation is b; bytes that are no value of
\* the model stand for an indeterminate one
DoubleOfBytes(b, indeterminate) ==
  LET sign == IF b[8] >= 128 THEN -1 ELSE 1
      top == <<b[7], b[8] % 128>>
      qs == {q \in 0..8 : DoubleTop(q) = top}
  IN  IF qs # {} /\ SubSeq(b, 1, 6) = <<0, 0, 0, 0, 0, 0>>
        THEN sign * 4 * (CHOOSE q \in qs : TRUE)
        ELSE indeterminate

\* fwrite(ptr, size, 1, f) of one neuron in the opposite order
save_neuron_weights_first(n, l, i) ==
  FlatMap(LAMBDA j : DoubleBytes(n.weights[l].data[i][j]),
          0, n.net_structure[l] - 1)
  \o DoubleBytes(n.biases[l].data[i][0])

\* the bytes save_network writes for neuron i of layer l + 1
save_neuron(n, l, i) ==
  DoubleBytes(n.biases[l].data[i][0])
  \o FlatMap(LAMBDA j : DoubleBytes(n.weights[l].data[i][j]),
             0, n.net_structure[l] - 1)

\* the bytes save_network leaves in the file
save_network(n) ==
  LET layer(l) == FlatMap(LAMBDA i : save_neuron(n, l, i),
                          0, n.net_structure[l + 1] - 1)
  IN  IntBytes(n.n_layers)
      \o FlatMap(LAMBDA l : IntBytes(n.net_structure[l]), 0, n.n_layers - 1)
      \o FlatMap(layer, 0, n.n_layers - 2)

\* fread(buf, size, count, f) at stream position pos: the complete items it
\* stores and the position it leaves.  A partial item consumes the rest of the
\* stream and leaves its destination indeterminate.
fread(bytes, pos, size, count) ==
  LET avail == (Len(bytes) - pos) \div size
      got == IF count < 0 \/ avail < count THEN avail ELSE count
  IN  [items |-> [k \in 1..got |->
                    SubSeq(bytes, pos + size * (k - 1) + 1, pos + size * k)],
       pos |-> IF got = count THEN pos + size * got ELSE Len(bytes)]

\* Loop order of load_network's reads.
load_order(n_layers, net_structure) ==
  LET neuron(l, i) ==
        <<[k |-> "b", l |-> l, i |-> i, j |-> 0]>>
        \o FlatMap(LAMBDA j : <<[k |-> "w", l |-> l, i |-> i, j |-> j]>>,
                   0, net_structure[l] - 1)
      layer(l) == FlatMap(LAMBDA i : neuron(l, i), 0, net_structure[l + 1] - 1)
  IN  FlatMap(layer, 0, n_layers - 2)

RECURSIVE read_doubles(_, _, _, _, _, _)
\* load_network's nested read loops from target k on: the network and the
\* number of items fread did not deliver.
read_doubles(bytes, pos, n, targets, k, short) ==
  IF k > Len(targets) THEN [net |-> n, short |-> short]
  ELSE LET r == fread(bytes, pos, SizeofDouble, 1)
       IN  IF Len(r.items) = 1
             THEN read_doubles(bytes, r.pos,
                    Store(n, targets[k],
                          DoubleOfBytes(r.items[1], Entry(n, targets[k]))),
                    targets, k + 1, short)
             ELSE read_doubles(bytes, r.pos, n, targets, k + 1, short + 1)

\* load_network on an opened file: gi and gd are the indeterminate contents of
\* the int and double storage it allocates.
load_network(bytes, gi, gd) ==
  LET r1 == fread(bytes, 0, SizeofInt, 1)
      n_layers == IF Len(r1.items) = 1 THEN IntOfBytes(r1.items[1]) ELSE gi
      r2 == fread(bytes, r1.pos, SizeofInt, n_layers)
      net_structure == [l \in 0..(n_layers - 1) |->
                          IF l < Len(r2.items) THEN IntOfBytes(r2.items[l + 1])
                          ELSE gi]
      short0 == (1 - Len(r1.items))
                + ((IF n_layers < 0 THEN 0 ELSE n_layers) - Len(r2.items))
  IN  read_doubles(bytes, r2.pos,
                   create_network(n_layers, net_structure, gd),
                   load_order(n_layers, net_structure), 1, short0)

\* ----------------------------------------------------------------- training
\* calculate_costs: a stub returning an empty matrix
calculate_costs(lbls, outputs) == alloc_matrix_double(0, 0, 0)

\* The matrices network_backprop allocates for example i, in program order:
\* a sequence of [tag, m], tag naming the variable that holds the matrix.
backprop_forward(n, training_data, training_labels, i) ==
  LET a0 == set_col_matrix_double(
              alloc_matrix_double(training_data.nrows, 1, 0),
              copy_col_matrix_double(training_data, i), 0)
      z0 == alloc_matrix_double(0, 0, 0)
      activ[l \in 0..(n.n_layers - 1)] ==
        IF l = 0 THEN a0
        ELSE vectorized_sigma(copy_matrix_double(
               matrix_product_matrix_double(n.weights[l - 1], activ[l - 1])))
      z(l) == matrix_product_matrix_double(n.weights[l - 1], activ[l - 1])
  IN  <<[tag |-> <<"activs", 0, i>>, m |-> a0],
        [tag |-> <<"zs", 0, i>>, m |-> z0]>>
      \o FlatMap(LAMBDA l : <<[tag |-> <<"zs", l, i>>, m |-> z(l)],
                              [tag |-> <<"activs", l, i>>, m |-> activ[l]]>>,
                 1, n.n_layers - 1)
      \o <<[tag |-> <<"costs", 0, i>>,
            m |-> calculate_costs(training_labels, activ[n.n_layers - 1])]>>

\* The entries the cleanup of network_backprop releases, in program order.
\* costs holds the last matrix assigned to it; with no example it was never
\* assigned (column -1 names that indeterminate value).
backprop_cleanup(n, training_data) ==
  <<<<"costs", 0, training_data.ncols - 1>>>>
  \o FlatMap(LAMBDA i :
       FlatMap(LAMBDA l : <<<<"activs", l, i>>, <<"zs", l, i>>>>,
               0, training_data.ncols - 1),
       0, training_data.ncols - 1)

\* the longest prefix of seq whose members are all in S
RECURSIVE PrefixIn(_, _)
PrefixIn(seq, S) ==
  IF seq = <<>> \/ Head(seq) \notin S THEN <<>>
  ELSE <<Head(seq)>> \o PrefixIn(Tail(seq), S)

\* network_backprop: what it allocated and what its cleanup released.
\* Releasing an entry that holds no matrix of this call is undefined: the call
\* either dies there (survive = FALSE) or goes on.
network_backprop(n, training_data, training_labels, survive) ==
  LET made == FlatMap(LAMBDA i : backprop_forward(n, training_data,
                                                  training_labels, i),
                      0, training_data.ncols - 1)
      allocated == {made[x].tag : x \in 1..Len(made)}
      cleanup == backprop_cleanup(n, training_data)
  IN  [called |-> TRUE,
       returned |-> survive,
       n_layers |-> n.n_layers,
       ncols |-> training_data.ncols,
       allocated |-> allocated,
       freed |-> IF survive THEN cleanup ELSE PrefixIn(cleanup, allocated)]

\* TRUE when the cleanup touches an entry that holds no matrix of the call
backprop_undefined(n, training_data) ==
  LET cleanup == backprop_cleanup(n, training_data)
  IN  \E x \in 1..Len(cleanup) :
        \/ cleanup[x][3] < 0               \* costs never assigned
        \/ cleanup[x][2] >= n.n_layers     \* past the rows of activs and zs

backprop_net_updated(n, training_data, training_labels) ==
  Store(n, [k |-> "b", l |-> 0, i |-> 0, j |-> 0], 0)

\* the network after network_backprop: no entry is written
backprop_net(n, training_data, training_labels) == n

shuffle_swap_data_only(d, l, i, j) ==
  <<interchange_cols_matrix_double(d, i, j), l>>

\* one pass of shuffle_data's loop body with rand_lim(i) = j
shuffle_swap(d, l, i, j) ==
  <<interchange_cols_matrix_double(d, i, j),
    interchange_cols_matrix_double(l, i, j)>>

sgd_k_last_index(j, size, data_size) ==
  IF j + size >= data_size THEN data_size - 1 ELSE j + size

\* k of network_SGD: the column after the mini-batch that starts at j
sgd_k(j, size, data_size) ==
  IF j + size > data_size THEN data_size ELSE j + size

\* the sections network_SGD extracts for the mini-batch at column j
sgd_sections(d, l, j, k) ==
  LET section == [a |-> [row |-> 0, col |-> j],
                  b |-> [row |-> d.nrows, col |-> k]]
  IN  [data |-> section, labels |-> [section EXCEPT !.b.row = l.nrows]]

\* ------------------------------------------------------------------ driver
Schedules ==
  UNION {[n : {n}, s : [0..(n - 1) -> 0..MaxSize]] : n \in 0..MaxLayers}

\* the networks the training driver builds: two inputs, one output
TrainSchedules ==
  {[n |-> n, s |-> [l \in 0..(n - 1) |-> IF l = n - 1 THEN 1 ELSE 2]] :
     n \in 2..MaxLayers}

\* a corpus of N examples: column c holds c quarters, its label -c quarters
CorpusData(N, nrows) ==
  [nrows |-> nrows, ncols |-> N,
   data |-> [r \in 0..(nrows - 1) |-> [c \in 0..(N - 1) |-> 4 * c]]]

CorpusLabels(N, nrows) ==
  [nrows |-> nrows, ncols |-> N,
   data |-> [r \in 0..(nrows - 1) |-> [c \in 0..(N - 1) |-> 0 - 4 * c]]]

NoBackprop == [called |-> FALSE, returned |-> FALSE, n_layers |-> 0,
               ncols |-> 0, allocated |-> {}, freed |-> <<>>]

Init ==
  /\ pc \in {"api", "train"}
  /\ data = CorpusData(0, 0)
  /\ labels = CorpusLabels(0, 0)
  /\ epochs = 0
  /\ mini_batch_size = 0
  /\ sgd_i = 0
  /\ sgd_j = 0
  /\ shuf_i = 0
  /\ batches = <<>>
  /\ bp = NoBackprop
  /\ sched = [n |-> 0, s |-> <<>>]
  /\ net = NullNet
  /\ input = <<>>
  /\ output = <<>>
  /\ file = [exists |-> FALSE, bytes |-> <<>>]
  /\ loaded = NullNet
  /\ short_reads = 0

CreateNetwork ==
  /\ pc \in {"api", "train"}
  /\ \E a \in (IF pc = "api" THEN Schedules ELSE TrainSchedules),
        fill \in GarbageDoubles :
       /\ sched' = a
       /\ net' = create_network(a.n, a.s, fill)
  /\ pc' = IF pc = "api" THEN "net" ELSE "tnet"
  /\ UNCHANGED <<apivars, sgdvars>>

SetRandomWeightsBiases ==
  /\ pc \in {"net", "tnet"}
  /\ ValidSchedule(net.n_layers, net.net_structure)
  /\ \E seed \in Seeds : net' = set_random_weights_biases(net, seed)
  /\ UNCHANGED <<pc, sched, apivars, sgdvars>>

Feedforward ==
  /\ pc = "net"
  /\ ValidSchedule(net.n_layers, net.net_structure)
  /\ \E in \in [0..(net.net_structure[0] - 1) -> InputVals] :
       /\ input' = in
       /\ output' = feedforward(net, in)
  /\ pc' = "fed"
  /\ UNCHANGED <<sched, net, file, loaded, short_reads, sgdvars>>

\* save_network when fopen succeeds
SaveNetwork ==
  /\ pc = "net"
  /\ ValidSchedule(net.n_layers, net.net_structure)
  /\ file' = [exists |-> TRUE, bytes |-> save_network(net)]
  /\ pc' = "saved"
  /\ UNCHANGED <<sched, net, input, output, loaded, short_reads, sgdvars>>

\* save_network when fopen returns NULL: fwrite on a null stream
SaveNetworkUnwritable ==
  /\ pc = "net"
  /\ ValidSchedule(net.n_layers, net.net_structure)
  /\ pc' = "crashed"
  /\ UNCHANGED <<sched, net, apivars, sgdvars>>

\* the environment cuts the saved file short
TruncateFile ==
  /\ pc = "saved"
  /\ \E len \in 0..(Len(file.bytes) - 1) :
       file' = [file EXCEPT !.bytes = SubSeq(file.bytes, 1, len)]
  /\ pc' = "cut"
  /\ UNCHANGED <<sched, net, input, output, loaded, short_reads, sgdvars>>

LoadNetwork ==
  /\ pc \in {"saved", "cut"}
  /\ file.exists
  /\ \E gi \in GarbageInts, gd \in GarbageDoubles :
       LET r == load_network(file.bytes, gi, gd)
       IN  /\ loaded' = r.net
           /\ short_reads' = r.short
  /\ pc' = "loaded"
  /\ UNCHANGED <<sched, net, input, output, file, sgdvars>>

\* load_network when fopen returns NULL: fread on a null stream
LoadNetworkUnreadable ==
  /\ pc = "api"
  /\ ~file.exists
  /\ pc' = "crashed"
  /\ UNCHANGED <<sched, net, apivars, sgdvars>>

\* the call network_SGD(net, training_data, training_labels, epochs,
\* mini_batch_size, eta) up to the head of its epoch loop
SGDCall ==
  /\ pc = "tnet"
  /\ \E N \in 0..MaxCols, e \in 0..MaxEpochs, size \in 0..MaxBatch :
       /\ data' = CorpusData(N, net.net_structure[0])
       /\ labels' = CorpusLabels(N, net.net_structure[net.n_layers - 1])
       /\ epochs' = e
       /\ mini_batch_size' = size
  /\ sgd_i' = 0
  /\ pc' = "sgd_for_i"
  /\ UNCHANGED <<sched, net, apivars, sgd_j, shuf_i, batches, bp>>

\* for (i = 0; i < epochs; ...): enter shuffle_data
SGDEpoch ==
  /\ pc = "sgd_for_i"
  /\ sgd_i < epochs
  /\ shuf_i' = data.ncols - 1
  /\ pc' = "shuffle"
  /\ UNCHANGED <<sched, net, apivars, data, labels, epochs, mini_batch_size,
                 sgd_i, sgd_j, batches, bp>>

SGDReturn ==
  /\ pc = "sgd_for_i"
  /\ sgd_i >= epochs
  /\ pc' = "sgd_returned"
  /\ UNCHANGED <<sched, net, apivars, sgdvars>>

\* one pass of shuffle_data's loop
ShuffleStep ==
  /\ pc = "shuffle"
  /\ shuf_i >= 1
  /\ \E j \in rand_lim(shuf_i) :
       LET r == shuffle_swap(data, labels, shuf_i, j)
       IN  data' = r[1] /\ labels' = r[2]
  /\ shuf_i' = shuf_i - 1
  /\ UNCHANGED <<pc, sched, net, apivars, epochs, mini_batch_size, sgd_i,
                 sgd_j, batches, bp>>

\* shuffle_data returns; network_SGD starts its mini-batch loop
ShuffleReturn ==
  /\ pc = "shuffle"
  /\ shuf_i < 1
  /\ sgd_j' = 0
  /\ batches' = <<>>
  /\ pc' = "sgd_for_j"
  /\ UNCHANGED <<sched, net, apivars, data, labels, epochs, mini_batch_size,
                 sgd_i, shuf_i, bp>>

\* the body of the mini-batch loop up to the return of network_backprop
SGDBackprop ==
  /\ pc = "sgd_for_j"
  /\ sgd_j < data.ncols
  /\ LET k == sgd_k(sgd_j, mini_batch_size, data.ncols)
         section == sgd_sections(data, labels, sgd_j, k)
         mini_batch_data == extract_section_matrix_double(data, section.data)
         mini_batch_labels ==
           extract_section_matrix_double(labels, section.labels)
     IN  /\ bp' = network_backprop(net, mini_batch_data, mini_batch_labels,
                                   TRUE)
         /\ net' = backprop_net(net, mini_batch_data, mini_batch_labels)
         /\ batches' = IF Len(batches) <= data.ncols
                         THEN Append(batches, section) ELSE batches
  /\ pc' = "sgd_free"
  /\ UNCHANGED <<sched, apivars, data, labels, epochs, mini_batch_size,
                 sgd_i, sgd_j, shuf_i>>

\* the same, when network_backprop dies releasing what it never allocated
SGDBackpropCrash ==
  /\ pc = "sgd_for_j"
  /\ sgd_j < data.ncols
  /\ LET k == sgd_k(sgd_j, mini_batch_size, data.ncols)
         section == sgd_sections(data, labels, sgd_j, k)
         mini_batch_data == extract_section_matrix_double(data, section.data)
         mini_batch_labels ==
           extract_section_matrix_double(labels, section.labels)
     IN  /\ backprop_undefined(net, mini_batch_data)
         /\ bp' = network_backprop(net, mini_batch_data, mini_batch_labels,
                                   FALSE)
         /\ batches' = IF Len(batches) <= data.ncols
                         THEN Append(batches, section) ELSE batches
  /\ pc' = "crashed"
  /\ UNCHANGED <<sched, net, apivars, data, labels, epochs, mini_batch_size,
                 sgd_i, sgd_j, shuf_i>>

\* the mini-batch matrices are freed; j += mini_batch_size
SGDAdvance ==
  /\ pc = "sgd_free"
  /\ sgd_j' = sgd_j + mini_batch_size
  /\ pc' = "sgd_for_j"
  /\ UNCHANGED <<sched, net, apivars, data, labels, epochs, mini_batch_size,
                 sgd_i, shuf_i, batches, bp>>

\* the mini-batch loop ends: next epoch
SGDEpochEnd ==
  /\ pc = "sgd_for_j"
  /\ sgd_j >= data.ncols
  /\ sgd_i' = sgd_i + 1
  /\ pc' = "sgd_for_i"
  /\ UNCHANGED <<sched, net, apivars, data, labels, epochs, mini_batch_size,
                 sgd_j, shuf_i, batches, bp>>

Next ==
  \/ CreateNetwork
  \/ SetRandomWeightsBiases
  \/ Feedforward
  \/ SaveNetwork
  \/ SaveNetworkUnwritable
  \/ TruncateFile
  \/ LoadNetwork
  \/ LoadNetworkUnreadable
  \/ SGDCall
  \/ SGDEpoch
  \/ SGDReturn
  \/ ShuffleStep
  \/ ShuffleReturn
  \/ SGDBackprop
  \/ SGDBackpropCrash
  \/ SGDAdvance
  \/ SGDEpochEnd

Spec == Init /\ [][Next]_vars

\* The training driver alone.  The program is sequential: whatever statement
\* comes next is executed, so every step but a crash is weakly fair.
TrainInit == Init /\ pc = "train"

TrainRun ==
  \/ SGDCall
  \/ SGDEpoch
  \/ SGDReturn
  \/ ShuffleStep
  \/ ShuffleReturn
  \/ SGDBackprop
  \/ SGDAdvance
  \/ SGDEpochEnd

TrainNext ==
  \/ CreateNetwork
  \/ SetRandomWeightsBiases
  \/ TrainRun
  \/ SGDBackpropCrash

TrainSpec == TrainInit /\ [][TrainNext]_vars /\ WF_vars(TrainRun)

\* ------------------------------------------------------------------ claims
Column(m, c) == [r \in 0..(m.nrows - 1) |-> m.data[r][c]]

ColumnOrders(N) ==
  {p \in [0..(N - 1) -> 0..(N - 1)] :
     \A x, y \in 0..(N - 1) : p[x] = p[y] => x = y}

SGDRunning == pc \in {"sgd_for_i", "shuffle", "sgd_for_j", "sgd_free"}

\* C1: when load_network reads the very bytes save_network wrote for a valid
\* network, the network it returns has the same n_layers, the same
\* net_structure and the same biases and weights, entry by entry, and every
\* item was read.
C1_RoundTrip ==
  (pc = "loaded" /\ file.bytes = save_network(net))
    => (loaded = net /\ short_reads = 0)

C1_Witness ==
  /\ pc = "loaded"
  /\ file.bytes = save_network(net)
  /\ net.n_layers = 3
  /\ net.net_structure[0] = 2
  /\ net.biases[0].data[0][0] # net.weights[0].data[0][1]
  /\ loaded.weights[1].data[0][0] = net.weights[1].data[0][0]

\* C2: at every step of training the columns of training_data and
\* training_labels are one permutation p of the corpus that was passed in:
\* column k of both matrices is the former column p(k).
C2_ColumnsAligned ==
  \E p \in ColumnOrders(data.ncols) :
    \A k \in 0..(data.ncols - 1) :
      /\ Column(data, k) = Column(CorpusData(data.ncols, data.nrows), p[k])
      /\ Column(labels, k)
           = Column(CorpusLabels(labels.ncols, labels.nrows), p[k])

C2_Witness ==
  /\ pc = "shuffle"
  /\ shuf_i < 1
  /\ data.ncols = 3
  /\ Column(data, 0) = Column(CorpusData(3, data.nrows), 2)
  /\ Column(labels, 1) = Column(CorpusLabels(3, labels.nrows), 0)

ShapeInvariant(n) ==
  /\ DOMAIN n.weights = 0..(n.n_layers - 2)
  /\ DOMAIN n.biases = 0..(n.n_layers - 2)
  /\ \A l \in 0..(n.n_layers - 2) :
       /\ n.weights[l].nrows = n.net_structure[l + 1]
       /\ n.weights[l].ncols = n.net_structure[l]
       /\ DOMAIN n.weights[l].data = 0..(n.net_structure[l + 1] - 1)
       /\ \A r \in DOMAIN n.weights[l].data :
            DOMAIN n.weights[l].data[r] = 0..(n.net_structure[l] - 1)
       /\ n.biases[l].nrows = n.net_structure[l + 1]
       /\ n.biases[l].ncols = 1
       /\ DOMAIN n.biases[l].data = 0..(n.net_structure[l + 1] - 1)
       /\ \A r \in DOMAIN n.biases[l].data : DOMAIN n.biases[l].data[r] = {0}

\* C3: the network create_network returned for a valid schedule has L-1 weight
\* matrices of net_structure[l+1] x net_structure[l] and L-1 bias vectors of
\* net_structure[l+1] x 1, and net_structure copies the schedule; this stays
\* so after set_random_weights_biases, feedforward, save_network and
\* network_SGD.
C3_ShapeInvariant ==
  (pc \notin {"api", "train"} /\ ValidSchedule(sched.n, sched.s))
    => /\ net.n_layers = sched.n
       /\ net.net_structure = [l \in 0..(sched.n - 1) |-> sched.s[l]]
       /\ ShapeInvariant(net)

C3_Witness ==
  /\ pc = "sgd_returned"
  /\ sgd_i = 2
  /\ bp.returned
  /\ net.n_layers = 3
  /\ net.weights[1].nrows = 1
  /\ net.weights[1].ncols = 2

Min(a, b) == IF a < b THEN a ELSE b

EpochOver ==
  \/ pc = "sgd_for_j" /\ sgd_j >= data.ncols
  \/ pc \in {"sgd_for_i", "sgd_returned"} /\ sgd_i >= 1

\* C4: with mini_batch_size >= 1, the b-th mini-batch of an epoch is the
\* column range [(b-1)m, min(bm, N)) of both training_data and
\* training_labels, network_backprop gets exactly those columns, and a finished
\* epoch has made ceil(N / m) mini-batches that hold every column once.
C4_MiniBatches ==
  mini_batch_size >= 1 =>
    /\ \A b \in 1..Len(batches) :
         /\ batches[b].data.a.col = (b - 1) * mini_batch_size
         /\ batches[b].data.b.col = Min(b * mini_batch_size, data.ncols)
         /\ batches[b].data.a.col < batches[b].data.b.col
         /\ batches[b].labels.a.col = batches[b].data.a.col
         /\ batches[b].labels.b.col = batches[b].data.b.col
    /\ (bp.called /\ batches # <<>>) =>
         bp.ncols = batches[Len(batches)].data.b.col
                    - batches[Len(batches)].data.a.col
    /\ EpochOver =>
         /\ Len(batches)
              = (data.ncols + mini_batch_size - 1) \div mini_batch_size
         /\ \A c \in 0..(data.ncols - 1) :
              Cardinality({b \in 1..Len(batches) :
                             /\ batches[b].data.a.col <= c
                             /\ c < batches[b].data.b.col}) = 1

C4_Witness ==
  /\ pc = "sgd_returned"
  /\ sgd_i = 2
  /\ data.ncols = 3
  /\ mini_batch_size = 2
  /\ Len(batches) = 2
  /\ batches[2].data.a.col = 2
  /\ batches[2].data.b.col = 3

\* C5: every call of network_SGD comes to an end, whatever epochs,
\* mini_batch_size and N are.
C5_SGDEnds == (pc = "sgd_for_i") ~> (pc \in {"sgd_returned", "crashed"})

\* C6: load_network never returns a network some of whose entries it did not
\* read from the file.
C6_NoPartialNetwork == pc = "loaded" => short_reads = 0

\* C7: create_network returns no network for a schedule with fewer than 2
\* layers or a layer size <= 0.
C7_InvalidScheduleRejected ==
  ~(pc = "net" /\ ~ValidSchedule(sched.n, sched.s))

\* C8: when network_backprop returns, every matrix it allocated has been
\* released exactly once, and it released no entry it had not allocated.
C8_ReleasedExactlyOnce ==
  (bp.called /\ bp.returned) =>
    /\ \A t \in bp.allocated :
         Cardinality({x \in 1..Len(bp.freed) : bp.freed[x] = t}) = 1
    /\ \A x \in 1..Len(bp.freed) : bp.freed[x] \in bp.allocated

\* C9: no step of network_SGD, network_backprop included, changes the network;
\* the training matrices keep their shape and their columns, in some order.
C9_ParametersReadOnly ==
  [][SGDRunning =>
       /\ net' = net
       /\ data'.nrows = data.nrows /\ data'.ncols = data.ncols
       /\ labels'.nrows = labels.nrows /\ labels'.ncols = labels.ncols
       /\ \E p \in ColumnOrders(data.ncols) :
            \A k \in 0..(data.ncols - 1) :
              /\ Column(data', k) = Column(data, p[k])
              /\ Column(labels', k) = Column(labels, p[k])]_vars

C9_Witness ==
  /\ pc = "sgd_returned"
  /\ sgd_i = 2
  /\ bp.returned
  /\ bp.ncols = 2
  /\ data # CorpusData(data.ncols, data.nrows)

\* the network n with every bias set to b
WithBiases(n, b) ==
  [n EXCEPT !.biases = [l \in DOMAIN n.biases |->
      alloc_matrix_double(n.biases[l].nrows, 1, b)]]

\* C10: the output feedforward wrote has net_structure[L-1] entries and is the
\* output of every network with the same weights and other biases.
C10_BiasIndependent ==
  pc = "fed" =>
    /\ DOMAIN output = 0..(net.net_structure[net.n_layers - 1] - 1)
    /\ \A b \in {-32, -16, 0, 16, 32} :
         feedforward(WithBiases(net, b), input) = output

C10_Witness ==
  /\ pc = "fed"
  /\ net.n_layers = 3
  /\ net.biases[0].data[0][0] # 0
  /\ net.biases[1].data[0][0] # 0
  /\ \E r \in DOMAIN input : input[r] # 0
  /\ \E r \in DOMAIN output : output[r] # 8
====
